---- MODULE Spec2Model ----
(***************************************************************************)
(* The unified check-in form (components/logging/UnifiedLogScreen.tsx):    *)
(* its React state, the draft cache (AsyncStorage), the hydration effect,  *)
(* the autosave effect, handleCancel, handleSave and the tables the save   *)
(* writes (daily_logs, moment_logs and their child tables, users).         *)
(*                                                                         *)
(* One action is one event handler or one resumption of an async function  *)
(* after an await, together with the render and the effects that follow    *)
(* it (React batches the state updates of one handler or one resumption).  *)
(* AsyncStorage runs its requests in the order they are issued, so a       *)
(* draft request takes effect in the step that issues it; a request to the *)
(* relational store takes effect in the step that resumes after it.        *)
(***************************************************************************)
EXTENDS Integers, Sequences, FiniteSets, TLC

\* ---------------------------------------------------------------- bounds
MaxEdits == 1
\* Mode switches and new instances after the first: each starts a hydrate run.
MaxSwitches == 1
MaxSaves == 2
MaxCancels == 2

\* ---------------------------------------------------------------- values
\* A nullable value (null, undefined, a missing key) is <<>> or <<v>>.
None == <<>>
Some(x) == <<x>>

Modes == {"moment", "daily"}
Conds == {"A", "B"}
\* The triggers; the user has disabled "stress" (see UserTriggers).
Trigs == {"on_period", "period_pain", "sleep_duration", "stress"}
SevInputs == {7}
NoteInputs == {"n1"}
DoingInputs == {"w1"}
\* What TriggerInput passes to onValueChange: binary (on_period) gives the
\* value and its label, enum (sleep_duration) the index of the option and the
\* option, scale (period_pain) the number alone.
TrigInputs(t) ==
  IF t = "on_period"
  THEN {[value |-> Some(0), valueText |-> Some("No")],
        [value |-> Some(1), valueText |-> Some("Yes")]}
  ELSE IF t = "sleep_duration"
  THEN {[value |-> Some(0), valueText |-> Some("<=4 hours")]}
  ELSE {[value |-> Some(3), valueText |-> None]}

\* The elements of a list.
Range(s) == {s[i] : i \in 1..Len(s)}

NoSeverities == [c \in Conds |-> None]
NoTriggerValues == [t \in Trigs |-> None]

\* The form after resetForm().
Blank ==
  [overallSeverity |-> None, selectedConditions |-> {},
   conditionSeverities |-> NoSeverities, whatDoing |-> "", notes |-> "",
   triggerValues |-> NoTriggerValues]

\* x ?? y
Coalesce(x, y) == IF x = None THEN y ELSE x[1]

\* n || 0 on a nullable number
NumOrZero(x) == IF x = None THEN 0 ELSE x[1]

\* s || null on a string
TextOrNull(s) == IF s = "" THEN None ELSE Some(s)

\* ---------------------------------------------------------------- drafts
\* A draft that would keep the numbers of the trigger values and lose the
\* labels captured with them.
MakeDraftNoLabels(m, f) ==
  [mode |-> m, overallSeverity |-> f.overallSeverity,
   selectedConditions |-> f.selectedConditions,
   conditionSeverities |-> f.conditionSeverities,
   notes |-> f.notes,
   triggerValues |-> [t \in DOMAIN f.triggerValues |->
                        IF f.triggerValues[t] = None THEN None
                        ELSE Some([f.triggerValues[t][1] EXCEPT !.valueText = None])],
   whatDoing |-> IF m = "moment" THEN Some(f.whatDoing) ELSE None]

\* The object saveDraft serialises (updatedAt is written and never read);
\* whatDoing is a key of the object only in moment mode.
MakeDraft(m, f) ==
  [mode |-> m, overallSeverity |-> f.overallSeverity,
   selectedConditions |-> f.selectedConditions,
   conditionSeverities |-> f.conditionSeverities,
   notes |-> f.notes, triggerValues |-> f.triggerValues,
   whatDoing |-> IF m = "moment" THEN Some(f.whatDoing) ELSE None]

\* A write that would leave a draft already stored as it is.
saveDraftKeepFirst(d, m, f) ==
  IF d[m] = None THEN [d EXCEPT ![m] = Some(MakeDraft(m, f))] ELSE d

\* saveDraft: AsyncStorage.setItem(draftKey, JSON.stringify(draft)) on the
\* cache d, with the mode and the fields of the render that made the callback.
saveDraft(d, m, f) == [d EXCEPT ![m] = Some(MakeDraft(m, f))]

\* A removal that would take the drafts of every mode.
clearDraftAll(d, m) == [k \in DOMAIN d |-> None]

\* clearDraft: AsyncStorage.removeItem(draftKey).
clearDraft(d, m) == [d EXCEPT ![m] = None]

\* An item of the draft cache that JSON.parse rejects.
Corrupt == [corrupt |-> TRUE]

\* A loadDraft that would answer an item JSON.parse rejects with an empty draft.
loadDraftEmptyForCorrupt(raw) ==
  IF raw = Some(Corrupt)
  THEN Some([mode |-> "daily", overallSeverity |-> None, selectedConditions |-> {},
             conditionSeverities |-> NoSeverities, notes |-> "",
             triggerValues |-> NoTriggerValues, whatDoing |-> None])
  ELSE raw

\* loadDraft: no item, or an item JSON.parse rejects, is null.
loadDraft(raw) == IF raw = None \/ raw = Some(Corrupt) THEN None ELSE raw

\* A draft branch that forgets the notes.
HydrateFromDraftNoNotes(d) ==
  [overallSeverity |-> d.overallSeverity,
   selectedConditions |-> d.selectedConditions,
   conditionSeverities |-> d.conditionSeverities,
   whatDoing |-> IF d.mode = "moment" THEN Coalesce(d.whatDoing, "") ELSE "",
   notes |-> "",
   triggerValues |-> d.triggerValues]

\* The six setters of the "draft wins" branch of hydrate.
HydrateFromDraft(d) ==
  [overallSeverity |-> d.overallSeverity,
   selectedConditions |-> d.selectedConditions,
   conditionSeverities |-> d.conditionSeverities,
   whatDoing |-> IF d.mode = "moment" THEN Coalesce(d.whatDoing, "") ELSE "",
   notes |-> d.notes,
   triggerValues |-> d.triggerValues]

\* ---------------------------------------------------------------- save
Sum(f, S) ==
  LET RECURSIVE Go(_)
      Go(T) == IF T = {} THEN 0
               ELSE LET x == CHOOSE y \in T : TRUE IN f[x] + Go(T \ {x})
  IN Go(S)

\* Math.round(n / d) for n >= 0, d > 0: floor(n/d + 1/2).
RoundDiv(n, d) == (2 * n + d) \div (2 * d)

\* selectedConditions.reduce((sum, id) => sum + (conditionSeverities[id] || 0), 0)
\*   / selectedConditions.length, rounded; null when nothing is selected.
avgConditionSeverity(f) ==
  IF f.selectedConditions # {}
  THEN Some(RoundDiv(Sum([c \in Conds |-> NumOrZero(f.conditionSeverities[c])],
                         f.selectedConditions),
                     Cardinality(f.selectedConditions)))
  ELSE None

\* overallSeverity ?? avgConditionSeverity
finalOverallSeverity(f) ==
  IF f.overallSeverity = None THEN avgConditionSeverity(f) ELSE f.overallSeverity

\* A filter on the truth of the value, which would drop the value 0 too.
triggerEntriesTruthy(f) ==
  {[trigger_id |-> t, value |-> f.triggerValues[t][1].value[1],
    value_text |-> IF f.triggerValues[t][1].valueText = Some("")
                   THEN None ELSE f.triggerValues[t][1].valueText] :
     t \in {u \in Trigs : f.triggerValues[u] # None
                           /\ f.triggerValues[u][1].value \notin {None, Some(0)}}}

\* Object.entries(triggerValues).filter(value !== null).map(...)
triggerEntries(f) ==
  {[trigger_id |-> t, value |-> f.triggerValues[t][1].value[1],
    value_text |-> IF f.triggerValues[t][1].valueText = Some("")
                   THEN None ELSE f.triggerValues[t][1].valueText] :
     t \in {u \in Trigs : f.triggerValues[u] # None /\ f.triggerValues[u][1].value # None}}

\* selectedConditions.map(id => ({user_condition_id, severity: sev[id] ?? null}))
conditionEntries(f) ==
  {[user_condition_id |-> c, severity |-> f.conditionSeverities[c]] :
     c \in f.selectedConditions}

\* ---------------------------------------------------------------- state
VARIABLES
  mounted,         \* the component instance is alive
  mode, loading, saved, hydrated,
  form,            \* overallSeverity, selectedConditions, conditionSeverities,
                   \* whatDoing, notes, triggerValues
  conditions,      \* the user's conditions, once loadConditions has answered
  enabledTriggers, \* the leaf triggers, once loadEnabledTriggers has answered
  passes,          \* the runs of hydrate still awaited, each with its closure
  save,            \* the run of handleSave: its closure and its position
  orphan,          \* a run of handleSave whose instance has been left and
                   \* replaced by a new one, still awaiting its requests
  saveResult,      \* what the last handleSave reported: overlay or alert
  drafts,          \* AsyncStorage, by mode (user and day are fixed)
  db,              \* the tables of the relational store
  used             \* how much of each bound has been used

vars == <<mounted, mode, loading, saved, hydrated, form, conditions,
          enabledTriggers, passes, save, orphan, saveResult, drafts, db, used>>

\* user_triggers rows with enabled = true, joined with triggers, minus groups,
\* in sort_order.
UserTriggers == <<"on_period", "period_pain", "sleep_duration">>
UserConditions == Conds

\* A draft and a daily check-in left by an earlier session.
SeedForm ==
  [overallSeverity |-> Some(7), selectedConditions |-> {"A"},
   conditionSeverities |-> [c \in Conds |-> IF c = "A" THEN Some(7) ELSE None],
   whatDoing |-> "w1", notes |-> "n1",
   triggerValues |-> [t \in Trigs |->
      IF t = "on_period" THEN Some([value |-> Some(1), valueText |-> Some("Yes")])
      ELSE None]]

\* Calendar days are numbered; Today is the day new Date() gives in UTC.
MaxDay == 9
Days == 1..MaxDay
Today == 2

EmptyDb ==
  [daily_logs |-> {}, daily_log_conditions |-> {}, daily_log_triggers |-> {},
   moment_logs |-> {}, moment_log_conditions |-> {}, moment_log_triggers |-> {},
   users |-> [current_streak |-> 1, longest_streak |-> 1, last_log_date |-> Some(Today - 1)]]

SeedDb ==
  [EmptyDb EXCEPT
     !.daily_logs = {[id |-> 1, overall_severity |-> Some(6), notes |-> Some("n2")]},
     !.daily_log_conditions =
        {[log_id |-> 1, user_condition_id |-> "B", severity |-> Some(6)]},
     !.daily_log_triggers =
        {[log_id |-> 1, trigger_id |-> "period_pain", value |-> 3,
          value_text |-> None]}]

NoChildren == [conditions |-> {}, triggers |-> {}, edits |-> 0]

\* handleSave at rest. before: the child rows of the daily tables and the
\* number of edits made when Save was pressed (kept for the properties; the
\* code does not read it).
Idle == [pc |-> "idle", mode |-> "daily", snap |-> Blank, id |-> 0,
         user |-> EmptyDb.users, before |-> NoChildren]

\* edits, switches, saves, cancels: how much of each bound is used. atEntry:
\* edits when the current hydrate run started; succeeded: saves that reported
\* success; doneAtEntry: succeeded when the current hydrate run started.
NothingUsed ==
  [edits |-> 0, switches |-> 0, saves |-> 0, cancels |-> 0, atEntry |-> 0,
   succeeded |-> 0, doneAtEntry |-> 0]

\* The closure of one run of the hydrate effect: the mode of its render, its
\* cancelled flag, the answer of its draft read and the id of the row found.
NewPass(m, n) ==
  [id |-> n, mode |-> m, cancelled |-> FALSE, pc |-> "loadDraft",
   draft |-> loadDraft(drafts[m]), dailyId |-> 0]

Init ==
  /\ mounted = TRUE
  /\ mode \in Modes
  /\ loading = FALSE
  /\ saved = FALSE
  /\ hydrated = FALSE
  /\ form = Blank
  /\ conditions = {}
  /\ enabledTriggers = <<>>
  /\ drafts \in {[m \in Modes |-> None], [m \in Modes |-> Some(MakeDraft(m, SeedForm))]}
  /\ passes = {NewPass(mode, 1)}
  /\ save = Idle
  /\ orphan = Idle
  /\ saveResult = "none"
  /\ db \in {EmptyDb, SeedDb}
  /\ used = NothingUsed

\* ---------------------------------------------------------------- effects
\* An autosave effect that would not look at the hydrated flag.
autosaveUnguarded(changed, hyd, sav, m, f) ==
  IF changed /\ ~sav
  THEN saveDraft(drafts, m, f)
  ELSE drafts

\* The autosave effect, run after a render in which one of its dependencies
\* changed: with the render's hydrated, saved, mode and fields it calls
\* saveDraft, which writes the whole form under the key of the mode.
autosave(changed, hyd, sav, m, f) ==
  IF changed /\ hyd /\ ~sav
  THEN saveDraft(drafts, m, f)
  ELSE drafts

\* The render after a state update of the mounted component.
Render(f, hyd, sav, changed) ==
  /\ form' = f
  /\ hydrated' = hyd
  /\ saved' = sav
  /\ drafts' = autosave(changed, hyd, sav, mode, f)

\* What is left of a cancelled closure writes something: in daily mode the
\* setWhatDoing('') after the draft read and the setters after the child reads.
StillWrites(p) ==
  p.mode = "daily" /\ p.pc \in {"loadDraft", "selectConditions", "selectTriggers"}

\* The cleanup of the hydrate effect: cancelled = true in every earlier
\* closure (one that has nothing left to write is dropped here).
CancelAll(ps) ==
  {p \in ps : p.cancelled} \cup
  {[p EXCEPT !.cancelled = TRUE] : p \in {q \in ps : ~q.cancelled /\ StillWrites(q)}}

PassCount == used.switches + 1

\* ---------------------------------------------------------------- editing
UI == mounted /\ ~saved

Edit(f, changed) ==
  /\ UI
  /\ used.edits < MaxEdits
  /\ used' = [used EXCEPT !.edits = @ + 1]
  /\ Render(f, hydrated, saved, changed)
  /\ UNCHANGED <<mounted, mode, loading, conditions, enabledTriggers,
                 passes, save, orphan, saveResult, db>>

\* SimpleSlider onChange={setOverallSeverity}
SetOverallSeverity ==
  \E v \in SevInputs :
    Edit([form EXCEPT !.overallSeverity = Some(v)], form.overallSeverity # Some(v))

\* A toggle that would leave the severity of the condition it removes.
toggleConditionKeepSeverity(f, c) ==
  IF c \in f.selectedConditions
  THEN [f EXCEPT !.selectedConditions = @ \ {c}]
  ELSE [f EXCEPT !.selectedConditions = @ \cup {c}]

\* toggleCondition: remove the condition and its severity, or add it.
toggleCondition(f, c) ==
  IF c \in f.selectedConditions
  THEN [f EXCEPT !.selectedConditions = @ \ {c}, !.conditionSeverities[c] = None]
  ELSE [f EXCEPT !.selectedConditions = @ \cup {c}]

ToggleCondition ==
  \E c \in conditions : Edit(toggleCondition(form, c), TRUE)

\* The inline slider, rendered for a selected condition only.
SetConditionSeverity ==
  \E c \in conditions \cap form.selectedConditions, v \in SevInputs :
    Edit([form EXCEPT !.conditionSeverities[c] = Some(v)], TRUE)

\* The activity input, rendered in moment mode only.
SetWhatDoing ==
  \E s \in DoingInputs :
    /\ mode = "moment"
    /\ Edit([form EXCEPT !.whatDoing = s], form.whatDoing # s)

SetNotes ==
  \E s \in NoteInputs : Edit([form EXCEPT !.notes = s], form.notes # s)

\* A test of the truth of on_period's value, which any value but 0 passes.
showPeriodPainTruthy(enabled, tv) ==
  /\ "on_period" \in Range(enabled)
  /\ tv["on_period"] # None
  /\ tv["on_period"][1].value \notin {None, Some(0)}

\* period_pain is shown only while the enabled on_period trigger has value 1.
showPeriodPain(enabled, tv) ==
  /\ "on_period" \in Range(enabled)
  /\ tv["on_period"] # None
  /\ tv["on_period"][1].value = Some(1)

\* enabledTriggers.filter(t => t.key === 'period_pain' ? !!showPeriodPain : true)
filteredTriggers(enabled, tv) ==
  SelectSeq(enabled, LAMBDA t : t = "period_pain" => showPeriodPain(enabled, tv))

\* TriggerInput onValueChange(value, valueText)
\* An onValueChange that would drop the value of period_pain when on_period
\* is set to anything but 1.
setTriggerValueClearingHidden(tv, t, x) ==
  [u \in Trigs |->
     IF u = t THEN Some(x)
     ELSE IF u = "period_pain" /\ t = "on_period" /\ x.value # Some(1) THEN None
     ELSE tv[u]]

\* setTriggerValues(prev => ({...prev, [t.id]: {value, valueText}}))
setTriggerValue(tv, t, x) == [tv EXCEPT ![t] = Some(x)]

SetTriggerValue ==
  \E t \in Range(filteredTriggers(enabledTriggers, form.triggerValues)) :
    \E x \in TrigInputs(t) :
      Edit([form EXCEPT !.triggerValues = setTriggerValue(@, t, x)], TRUE)

\* ---------------------------------------------------------------- mount effect
\* loadConditions answers (an error leaves the list as it is: empty).
LoadConditionsDone ==
  /\ mounted
  /\ conditions = {}
  /\ conditions' = UserConditions
  /\ UNCHANGED <<mounted, mode, loading, saved, hydrated, form, enabledTriggers,
                 passes, save, orphan, saveResult, drafts, db, used>>

\* setTriggerValues(prev => the entries of prev whose trigger is still enabled)
keepEnabled(tv, leaf) == [t \in Trigs |-> IF t \in Range(leaf) THEN tv[t] ELSE None]

\* loadEnabledTriggers answers (an error leaves the list as it is: empty).
LoadEnabledTriggersDone ==
  /\ mounted
  /\ enabledTriggers = <<>>
  /\ enabledTriggers' = UserTriggers
  /\ Render([form EXCEPT !.triggerValues = keepEnabled(@, UserTriggers)],
            hydrated, saved, TRUE)
  /\ UNCHANGED <<mounted, mode, loading, conditions, passes, save, orphan, saveResult,
                 db, used>>

\* ---------------------------------------------------------------- hydrate
Step(p, pc) == (passes \ {p}) \cup {[p EXCEPT !.pc = pc]}

\* The end of hydrate: if (!cancelled) setHydrated(true).
HydrateEnd(p, f, changed) ==
  /\ passes' = passes \ {p}
  /\ Render(f, hydrated \/ ~p.cancelled, saved, changed \/ (~p.cancelled /\ ~hydrated))

\* const draft = await loadDraft(); if (!cancelled && draft) {...; return}
\* then, in daily mode, setWhatDoing('') and the select on daily_logs.
\* Draft reads are answered in the order they were sent. When getItem
\* rejects, loadDraft and hydrate reject with it: the run is over and has set
\* nothing (what is left of it is kept until the effect's cleanup).
HydrateDraftLoaded ==
  \E p \in passes, ok \in BOOLEAN :
    /\ p.pc = "loadDraft"
    /\ \A q \in passes : q.pc = "loadDraft" => p.id <= q.id
    /\ IF ~ok
       THEN /\ passes' = IF p.cancelled THEN passes \ {p} ELSE Step(p, "rejected")
            /\ UNCHANGED <<form, hydrated, saved, drafts>>
       ELSE IF ~p.cancelled /\ p.draft # None
       THEN /\ passes' = passes \ {p}
            /\ Render(HydrateFromDraft(p.draft[1]), TRUE, saved, TRUE)
       ELSE IF p.mode = "daily"
       THEN /\ passes' = Step(p, "selectDaily")
            /\ Render([form EXCEPT !.whatDoing = ""], hydrated, saved,
                      form.whatDoing # "")
       ELSE HydrateEnd(p, form, FALSE)
    /\ UNCHANGED <<mounted, mode, loading, conditions, enabledTriggers,
                   save, orphan, saveResult, db, used>>

\* maybeSingle(): the row, null when there is none, an error when there are more.
maybeSingle(rows) ==
  IF Cardinality(rows) = 1 THEN [error |-> FALSE, data |-> Some(CHOOSE r \in rows : TRUE)]
  ELSE IF rows = {} THEN [error |-> FALSE, data |-> None]
  ELSE [error |-> TRUE, data |-> None]

\* if (!cancelled && daily?.id) { setOverallSeverity; setNotes; select conditions }
HydrateDailyLoaded ==
  \E p \in passes, ok \in BOOLEAN :
    /\ p.pc = "selectDaily"
    /\ LET daily == maybeSingle(db.daily_logs) IN
       IF ok /\ ~daily.error /\ ~p.cancelled /\ daily.data # None
       THEN LET row == daily.data[1]
                f == [form EXCEPT !.overallSeverity = row.overall_severity,
                                  !.notes = Coalesce(row.notes, "")]
            IN /\ passes' = (passes \ {p}) \cup
                              {[p EXCEPT !.pc = "selectConditions", !.dailyId = row.id]}
               /\ Render(f, hydrated, saved, f # form)
       ELSE HydrateEnd(p, form, FALSE)
    /\ UNCHANGED <<mounted, mode, loading, conditions, enabledTriggers,
                   save, orphan, saveResult, db, used>>

\* setSelectedConditions(selected); setConditionSeverities(severities);
\* neither looks at cancelled.
HydrateConditionsLoaded ==
  \E p \in passes, ok \in BOOLEAN :
    /\ p.pc = "selectConditions"
    /\ IF ok
       THEN LET dc == {r \in db.daily_log_conditions : r.log_id = p.dailyId}
                f == [form EXCEPT
                        !.selectedConditions = {r.user_condition_id : r \in dc},
                        !.conditionSeverities =
                           [c \in Conds |->
                              IF \E r \in dc : r.user_condition_id = c
                              THEN (CHOOSE r \in dc : r.user_condition_id = c).severity
                              ELSE None]]
            IN /\ passes' = Step(p, "selectTriggers")
               /\ Render(f, hydrated, saved, TRUE)
       ELSE HydrateEnd(p, form, FALSE)
    /\ UNCHANGED <<mounted, mode, loading, conditions, enabledTriggers,
                   save, orphan, saveResult, db, used>>

\* setTriggerValues(nextTV), which does not look at cancelled, then the end.
HydrateTriggersLoaded ==
  \E p \in passes, ok \in BOOLEAN :
    /\ p.pc = "selectTriggers"
    /\ IF ok
       THEN LET dt == {r \in db.daily_log_triggers : r.log_id = p.dailyId}
                f == [form EXCEPT !.triggerValues =
                        [t \in Trigs |->
                           IF \E r \in dt : r.trigger_id = t
                           THEN LET r == CHOOSE x \in dt : x.trigger_id = t
                                IN Some([value |-> Some(r.value), valueText |-> r.value_text])
                           ELSE None]]
            IN HydrateEnd(p, f, TRUE)
       ELSE HydrateEnd(p, form, FALSE)
    /\ UNCHANGED <<mounted, mode, loading, conditions, enabledTriggers,
                   save, orphan, saveResult, db, used>>

\* ---------------------------------------------------------------- mode pills
\* A pill of the other mode: setHydrated(false); (daily: setWhatDoing(''));
\* setMode. The render runs the hydrate effect again: the cleanup of the
\* earlier run, then setHydrated(false), resetForm() and the draft read.
SwitchMode ==
  \E m \in Modes :
    /\ UI
    /\ m # mode
    /\ used.switches < MaxSwitches
    /\ used' = [used EXCEPT !.switches = @ + 1, !.atEntry = used.edits,
                            !.doneAtEntry = used.succeeded]
    /\ mode' = m
    /\ hydrated' = FALSE
    /\ form' = Blank
    /\ passes' = CancelAll(passes) \cup {NewPass(m, PassCount + 1)}
    /\ UNCHANGED <<mounted, loading, saved, conditions, enabledTriggers,
                   save, orphan, saveResult, drafts, db>>

\* The pill of the mode already shown: no dependency of the hydrate effect
\* changes, so hydrate does not run.
TapActivePill ==
  /\ UI
  /\ Render(IF mode = "daily" THEN [form EXCEPT !.whatDoing = ""] ELSE form,
            FALSE, saved, TRUE)
  /\ UNCHANGED <<mounted, mode, loading, conditions, enabledTriggers,
                 passes, save, orphan, saveResult, db, used>>

\* ---------------------------------------------------------------- navigation
\* The instance is unmounted: its state is gone and the cleanup of the hydrate
\* effect cancels its closures, whose setters no longer do anything.
Unmount ==
  /\ mounted' = FALSE
  /\ hydrated' = FALSE
  /\ saved' = FALSE
  /\ loading' = FALSE
  /\ form' = Blank
  /\ conditions' = {}
  /\ enabledTriggers' = <<>>
  /\ passes' = {}

\* router.replace('/(tabs)/dashboard'): the instance of the stack route
\* (app/log.tsx) is unmounted, the one of the tab (today.tsx) stays mounted.
Leave ==
  \/ Unmount
  \/ UNCHANGED <<mounted, hydrated, saved, loading, form, conditions,
                 enabledTriggers, passes>>

\* handleCancel: await saveDraft(), then router.replace.
Cancel ==
  /\ UI
  /\ used.cancels < MaxCancels
  /\ used' = [used EXCEPT !.cancels = @ + 1]
  /\ drafts' = saveDraft(drafts, mode, form)
  /\ Leave
  /\ UNCHANGED <<mode, save, orphan, saveResult, db>>

\* The back gesture, or the tab's key changing with the mode parameter.
NavigateAway ==
  /\ mounted
  /\ Unmount
  /\ UNCHANGED <<mode, save, orphan, saveResult, drafts, db, used>>

\* A new instance: useState initial values, then the mount and hydrate effects.
\* A run of handleSave the instance before it had started goes on without an
\* instance (one such run is followed: while it lasts no further instance
\* with a run of its own is left).
Mount ==
  \E m \in Modes :
    /\ ~mounted
    /\ ~(save.pc # "idle" /\ orphan.pc # "idle")
    /\ used.switches < MaxSwitches
    /\ used' = [used EXCEPT !.switches = @ + 1, !.atEntry = used.edits,
                            !.doneAtEntry = used.succeeded]
    /\ mounted' = TRUE
    /\ mode' = m
    /\ passes' = {NewPass(m, PassCount + 1)}
    /\ IF save.pc = "idle" THEN UNCHANGED <<save, orphan>>
       ELSE orphan' = save /\ save' = Idle
    /\ UNCHANGED <<loading, saved, hydrated, form, conditions, enabledTriggers,
                   saveResult, drafts, db>>

\* "Back to dashboard" on the Saved overlay: setSaved(false); router.replace.
\* Where the instance stays mounted the render runs the autosave effect.
DismissSaved ==
  /\ mounted
  /\ saved
  /\ \/ Unmount /\ UNCHANGED drafts
     \/ /\ Render(form, hydrated, FALSE, TRUE)
        /\ UNCHANGED <<mounted, loading, conditions, enabledTriggers, passes>>
  /\ UNCHANGED <<mode, save, orphan, saveResult, db, used>>

\* ---------------------------------------------------------------- handleSave
\* Ids the store gives to new rows.
NewId == Cardinality(db.daily_logs) + Cardinality(db.moment_logs) + 1

AfterConditions(f) == IF triggerEntries(f) # {} THEN "insertTriggers" ELSE "fetchStreak"

AfterParent(f) ==
  IF f.selectedConditions # {} THEN "insertConditions" ELSE AfterConditions(f)

\* The run of handleSave a step belongs to: the run of the instance shown
\* (o = FALSE), or the run of an instance that was left (o = TRUE), whose
\* setters no longer do anything.
Run(o) == IF o THEN orphan ELSE save

SetRun(o, r) ==
  IF o THEN orphan' = r /\ UNCHANGED save
  ELSE save' = r /\ UNCHANGED orphan

\* The Save button (disabled while loading): the closure takes the mode and
\* the fields of the render, setLoading(true), and the first request is sent.
PressSave ==
  /\ UI
  /\ ~loading
  /\ used.saves < MaxSaves
  /\ used' = [used EXCEPT !.saves = @ + 1]
  /\ loading' = TRUE
  /\ save' = [pc |-> IF mode = "daily" THEN "lookup" ELSE "insertMoment",
              mode |-> mode, snap |-> form, id |-> 0, user |-> db.users,
              before |-> [conditions |-> db.daily_log_conditions,
                          triggers |-> db.daily_log_triggers,
                          edits |-> used.edits]]
  /\ saveResult' = "none"
  /\ UNCHANGED <<mounted, mode, saved, hydrated, form, conditions,
                 enabledTriggers, passes, orphan, drafts, db>>

SaveFrame ==
  UNCHANGED <<mounted, mode, loading, saved, hydrated, form, conditions,
              enabledTriggers, passes, saveResult, drafts, used>>

\* A catch block that would remove the draft.
draftsAfterFailureCleared(d, m) == [d EXCEPT ![m] = None]

\* What the catch block leaves in the draft cache: it does not touch it.
draftsAfterFailure(d, m) == d

\* A catch block that would reset the form.
formAfterFailureReset(f) == Blank

\* What the catch block leaves in the form: it calls no setter of a field.
formAfterFailure(f) == f

\* catch: console.error, Alert.alert('Save failed'); finally: setLoading(false).
Fail(o) ==
  /\ SetRun(o, [Run(o) EXCEPT !.pc = "idle"])
  /\ saveResult' = "failed"
  /\ loading' = IF o THEN loading ELSE FALSE
  /\ drafts' = draftsAfterFailure(drafts, Run(o).mode)
  /\ form' = formAfterFailure(form)
  /\ UNCHANGED <<mounted, mode, saved, hydrated, conditions,
                 enabledTriggers, passes, db, used>>

RequestPcs ==
  {"lookup", "update", "deleteConditions", "deleteTriggers", "insertDaily",
   "insertMoment", "insertConditions", "insertTriggers", "fetchStreak", "updateStreak"}

\* The awaited request answers with an error, which is thrown.
SaveRequestFails(o) ==
  /\ Run(o).pc \in RequestPcs
  /\ Fail(o)

\* A save that would insert whatever the lookup answers.
existingBranchAlwaysInsert(existing) == "insertDaily"

\* Which branch the lookup's answer selects: if (existing) update else insert.
existingBranch(existing) == IF existing # None THEN "update" ELSE "insertDaily"

SaveLookup(o) ==
  /\ Run(o).pc = "lookup"
  /\ LET existing == maybeSingle(db.daily_logs) IN
       IF existing.error THEN Fail(o)
       ELSE /\ SetRun(o, [Run(o) EXCEPT
                            !.pc = existingBranch(existing.data),
                            !.id = IF existing.data # None THEN existing.data[1].id ELSE 0])
            /\ UNCHANGED db
            /\ SaveFrame

SaveUpdate(o) ==
  /\ Run(o).pc = "update"
  /\ db' = [db EXCEPT !.daily_logs =
              {IF r.id = Run(o).id
               THEN [r EXCEPT !.overall_severity = finalOverallSeverity(Run(o).snap),
                              !.notes = TextOrNull(Run(o).snap.notes)]
               ELSE r : r \in @}]
  /\ SetRun(o, [Run(o) EXCEPT !.pc = "deleteConditions"])
  /\ SaveFrame

\* A delete that would remove nothing.
deleteChildrenNone(rows, id) == rows

\* delete().eq('daily_log_id', dailyLogId)
deleteChildren(rows, id) == {r \in rows : r.log_id # id}

SaveDeleteConditions(o) ==
  /\ Run(o).pc = "deleteConditions"
  /\ db' = [db EXCEPT !.daily_log_conditions = deleteChildren(@, Run(o).id)]
  /\ SetRun(o, [Run(o) EXCEPT !.pc = "deleteTriggers"])
  /\ SaveFrame

SaveDeleteTriggers(o) ==
  /\ Run(o).pc = "deleteTriggers"
  /\ db' = [db EXCEPT !.daily_log_triggers = deleteChildren(@, Run(o).id)]
  /\ SetRun(o, [Run(o) EXCEPT !.pc = AfterParent(Run(o).snap)])
  /\ SaveFrame

\* daily_logs_user_id_date_key: UNIQUE (user_id, date).
dailyUniqueViolation(rows) == rows # {}

SaveInsertDaily(o) ==
  /\ Run(o).pc = "insertDaily"
  /\ IF dailyUniqueViolation(db.daily_logs) THEN Fail(o)
     ELSE /\ db' = [db EXCEPT !.daily_logs = @ \cup
                      {[id |-> NewId,
                        overall_severity |-> finalOverallSeverity(Run(o).snap),
                        notes |-> TextOrNull(Run(o).snap.notes)]}]
          /\ SetRun(o, [Run(o) EXCEPT !.pc = AfterParent(Run(o).snap), !.id = NewId])
          /\ SaveFrame

\* A moment save that would write over the rows already there.
insertMomentReplacing(rows, row) == {row}

\* from('moment_logs').insert(row)
insertMoment(rows, row) == rows \cup {row}

SaveInsertMoment(o) ==
  /\ Run(o).pc = "insertMoment"
  /\ db' = [db EXCEPT !.moment_logs = insertMoment(@,
               [id |-> NewId,
                overall_severity |-> finalOverallSeverity(Run(o).snap),
                activity |-> TextOrNull(Run(o).snap.whatDoing),
                notes |-> TextOrNull(Run(o).snap.notes)])]
  /\ SetRun(o, [Run(o) EXCEPT !.pc = AfterParent(Run(o).snap), !.id = NewId])
  /\ SaveFrame

ConditionRows(id, f) ==
  {[log_id |-> id, user_condition_id |-> e.user_condition_id, severity |-> e.severity] :
     e \in conditionEntries(f)}

TriggerRows(id, f) ==
  {[log_id |-> id, trigger_id |-> e.trigger_id, value |-> e.value,
    value_text |-> e.value_text] : e \in triggerEntries(f)}

\* UNIQUE (daily_log_id, user_condition_id) and UNIQUE (daily_log_id, trigger_id).
conditionsUniqueViolation(rows, new) ==
  \E r \in rows, n \in new :
     r.log_id = n.log_id /\ r.user_condition_id = n.user_condition_id

triggersUniqueViolation(rows, new) ==
  \E r \in rows, n \in new : r.log_id = n.log_id /\ r.trigger_id = n.trigger_id

SaveInsertConditions(o) ==
  /\ Run(o).pc = "insertConditions"
  /\ LET new == ConditionRows(Run(o).id, Run(o).snap) IN
     IF Run(o).mode = "daily"
     THEN IF conditionsUniqueViolation(db.daily_log_conditions, new) THEN Fail(o)
          ELSE /\ db' = [db EXCEPT !.daily_log_conditions = @ \cup new]
               /\ SetRun(o, [Run(o) EXCEPT !.pc = AfterConditions(Run(o).snap)])
               /\ SaveFrame
     ELSE /\ db' = [db EXCEPT !.moment_log_conditions = @ \cup new]
          /\ SetRun(o, [Run(o) EXCEPT !.pc = AfterConditions(Run(o).snap)])
          /\ SaveFrame

SaveInsertTriggers(o) ==
  /\ Run(o).pc = "insertTriggers"
  /\ LET new == TriggerRows(Run(o).id, Run(o).snap) IN
     IF Run(o).mode = "daily"
     THEN IF triggersUniqueViolation(db.daily_log_triggers, new) THEN Fail(o)
          ELSE /\ db' = [db EXCEPT !.daily_log_triggers = @ \cup new]
               /\ SetRun(o, [Run(o) EXCEPT !.pc = "fetchStreak"])
               /\ SaveFrame
     ELSE /\ db' = [db EXCEPT !.moment_log_triggers = @ \cup new]
          /\ SetRun(o, [Run(o) EXCEPT !.pc = "fetchStreak"])
          /\ SaveFrame

\* updateStreak: the select on users.
SaveStreakFetch(o) ==
  /\ Run(o).pc = "fetchStreak"
  /\ SetRun(o, [Run(o) EXCEPT !.pc = "updateStreak", !.user = db.users])
  /\ UNCHANGED db
  /\ SaveFrame

\* A time zone: its offset from UTC in hours before and from the instant
\* (in hours since day 0, UTC) at which its clocks change.
FixedZone(off) == [before |-> off, after |-> off, change |-> 0]
Utc == FixedZone(0)
\* Clocks go from UTC-1 to UTC at 01:00 UTC of day 3 (as in Atlantic/Azores).
SpringZone == [before |-> 0 - 1, after |-> 0, change |-> 3 * 24 + 1]
\* Clocks go from UTC to UTC-1 at 01:00 UTC of day 3.
AutumnZone == [before |-> 0, after |-> 0 - 1, change |-> 3 * 24 + 1]
Zones == {Utc, FixedZone(0 - 5), FixedZone(9), SpringZone, AutumnZone}

\* new Date('YYYY-MM-DD'): the instant of UTC midnight of the day, in hours.
newDate(d) == d * 24

\* Date.prototype.toDateString: the calendar day of the instant in the zone.
toDateString(z, t) == (t + (IF t >= z.change THEN z.after ELSE z.before)) \div 24

\* The row updateStreak writes for the row it read, the date dateToUse and the
\* time zone of the device.
updateStreak(user, dateToUse, z) ==
  LET today == newDate(dateToUse)
      \* yesterday.setDate(yesterday.getDate() - 1): one calendar day back
      yesterday == toDateString(z, today) - 1
      cur == IF user.last_log_date = None THEN 1
             ELSE LET lastLog == newDate(user.last_log_date[1])
                  IN IF toDateString(z, lastLog) = yesterday
                     THEN user.current_streak + 1
                     ELSE IF toDateString(z, lastLog) # toDateString(z, today)
                          THEN 1
                          ELSE (IF user.current_streak = 0 THEN 1 ELSE user.current_streak)
  IN [current_streak |-> cur,
      longest_streak |-> IF cur > user.longest_streak THEN cur ELSE user.longest_streak,
      last_log_date |-> Some(dateToUse)]

\* The streak updateStreak computes from the row it read: handleSave passes no
\* logDate, so the date is the UTC date of the clock.
newStreak(user) == updateStreak(user, Today, Utc)

\* updateStreak: the update on users; then handleSave sends clearDraft().
SaveStreakUpdate(o) ==
  /\ Run(o).pc = "updateStreak"
  /\ db' = [db EXCEPT !.users = newStreak(Run(o).user)]
  /\ drafts' = clearDraft(drafts, Run(o).mode)
  /\ SetRun(o, [Run(o) EXCEPT !.pc = "cleared"])
  /\ UNCHANGED <<mounted, mode, loading, saved, hydrated, form, conditions,
                 enabledTriggers, passes, saveResult, used>>

\* After await clearDraft(): resetForm(); setSaved(true); finally setLoading(false).
SaveFinish(o) ==
  /\ Run(o).pc = "cleared"
  /\ SetRun(o, [Run(o) EXCEPT !.pc = "idle"])
  /\ saveResult' = "saved"
  /\ IF mounted /\ ~o
     THEN /\ Render(Blank, hydrated, TRUE, TRUE)
          /\ loading' = FALSE
     ELSE UNCHANGED <<form, hydrated, saved, drafts, loading>>
  /\ used' = [used EXCEPT !.succeeded = @ + 1]
  /\ UNCHANGED <<mounted, mode, conditions, enabledTriggers, passes, db>>

\* ---------------------------------------------------------------- behaviour
Editing ==
  \/ SetOverallSeverity
  \/ ToggleCondition
  \/ SetConditionSeverity
  \/ SetWhatDoing
  \/ SetNotes
  \/ SetTriggerValue

Hydrating ==
  \/ HydrateDraftLoaded
  \/ HydrateDailyLoaded
  \/ HydrateConditionsLoaded
  \/ HydrateTriggersLoaded

Saving ==
  \/ PressSave
  \/ SaveRequestFails(FALSE)
  \/ SaveLookup(FALSE)
  \/ SaveUpdate(FALSE)
  \/ SaveDeleteConditions(FALSE)
  \/ SaveDeleteTriggers(FALSE)
  \/ SaveInsertDaily(FALSE)
  \/ SaveInsertMoment(FALSE)
  \/ SaveInsertConditions(FALSE)
  \/ SaveInsertTriggers(FALSE)
  \/ SaveStreakFetch(FALSE)
  \/ SaveStreakUpdate(FALSE)
  \/ SaveFinish(FALSE)

\* The steps of the run of an instance that was left.
Orphaned ==
  \/ SaveRequestFails(TRUE)
  \/ SaveLookup(TRUE)
  \/ SaveUpdate(TRUE)
  \/ SaveDeleteConditions(TRUE)
  \/ SaveDeleteTriggers(TRUE)
  \/ SaveInsertDaily(TRUE)
  \/ SaveInsertMoment(TRUE)
  \/ SaveInsertConditions(TRUE)
  \/ SaveInsertTriggers(TRUE)
  \/ SaveStreakFetch(TRUE)
  \/ SaveStreakUpdate(TRUE)
  \/ SaveFinish(TRUE)

\* The whole screen.
Next ==
  \/ Editing
  \/ LoadConditionsDone
  \/ LoadEnabledTriggersDone
  \/ Hydrating
  \/ SwitchMode
  \/ TapActivePill
  \/ Cancel
  \/ NavigateAway
  \/ Mount
  \/ DismissSaved
  \/ Saving
  \/ Orphaned

Spec == Init /\ [][Next]_vars

\* Entering, editing, switching mode and leaving, while no save is pressed.
HydrateNext ==
  \/ Editing
  \/ LoadConditionsDone
  \/ LoadEnabledTriggersDone
  \/ Hydrating
  \/ SwitchMode
  \/ TapActivePill
  \/ NavigateAway
  \/ Mount

HydrateSpec == Init /\ [][HydrateNext]_vars

\* Every read a hydrate run awaits is answered, with its rows or an error.
HydrateFairSpec == HydrateSpec /\ WF_vars(Hydrating)

\* Entering, editing, cancelling and coming back, in one mode.
CancelNext ==
  \/ Editing
  \/ LoadConditionsDone
  \/ LoadEnabledTriggersDone
  \/ Hydrating
  \/ Cancel
  \/ Mount

CancelSpec == Init /\ [][CancelNext]_vars

\* The screen once hydrate has finished and both lists are loaded: the form
\* holds f and the autosave effect has written it under the key of the mode.
Hydrated(f) ==
  /\ mounted = TRUE
  /\ mode \in Modes
  /\ loading = FALSE
  /\ saved = FALSE
  /\ hydrated = TRUE
  /\ form = f
  /\ conditions = UserConditions
  /\ enabledTriggers = UserTriggers
  /\ passes = {}
  /\ save = Idle
  /\ orphan = Idle
  /\ saveResult = "none"
  /\ drafts = [m \in Modes |-> IF m = mode THEN Some(MakeDraft(m, f)) ELSE None]
  /\ db \in {EmptyDb, SeedDb}
  /\ used = NothingUsed

SaveInit == \E f \in {Blank, [SeedForm EXCEPT !.whatDoing = ""]} : Hydrated(f)

\* Saving, editing while the save runs, and the Saved overlay.
SaveNext ==
  \/ Editing
  \/ Saving
  \/ DismissSaved

SaveSpec == SaveInit /\ [][SaveNext]_vars

\* Trigger values with a zero, and with the null that hydrate copies from a
\* row whose value column is NULL.
ZeroAndNullTriggerValues ==
  [t \in Trigs |->
     IF t = "on_period" THEN Some([value |-> Some(0), valueText |-> Some("No")])
     ELSE IF t = "period_pain" THEN Some([value |-> None, valueText |-> None])
     ELSE IF t = "sleep_duration"
     THEN Some([value |-> Some(0), valueText |-> Some("<=4 hours")])
     ELSE None]

\* Forms the sliders, the condition list and the trigger inputs can produce.
Forms ==
  {f \in [overallSeverity : {None, Some(0), Some(7)},
          selectedConditions : SUBSET Conds,
          conditionSeverities : [Conds -> {None, Some(6), Some(7)}],
          whatDoing : {""}, notes : {""},
          triggerValues : {NoTriggerValues, SeedForm.triggerValues,
                           ZeroAndNullTriggerValues}] :
     \A c \in Conds : c \notin f.selectedConditions => f.conditionSeverities[c] = None}

SeverityInit == \E f \in Forms : Hydrated(f)

\* One save of each such form.
SeverityNext ==
  \/ Saving
  \/ DismissSaved

SeveritySpec == SeverityInit /\ [][SeverityNext]_vars

\* The condition list and its inline sliders are used, from every form they
\* can have produced.
ConditionNext ==
  \/ ToggleCondition
  \/ SetConditionSeverity

ConditionSpec == SeverityInit /\ [][ConditionNext]_vars

\* The hydrated screen, with or without a draft left under the other mode.
SwitchSaveInit ==
  \E f \in {Blank, [SeedForm EXCEPT !.whatDoing = ""]}, other \in BOOLEAN :
    /\ mounted = TRUE
    /\ mode \in Modes
    /\ loading = FALSE
    /\ saved = FALSE
    /\ hydrated = TRUE
    /\ form = f
    /\ conditions = UserConditions
    /\ enabledTriggers = UserTriggers
    /\ passes = {}
    /\ save = Idle
    /\ orphan = Idle
    /\ saveResult = "none"
    /\ drafts = [m \in Modes |->
                   IF m = mode THEN Some(MakeDraft(m, f))
                   ELSE IF other THEN Some(MakeDraft(m, SeedForm)) ELSE None]
    /\ db \in {EmptyDb, SeedDb}
    /\ used = NothingUsed

\* Saving, and switching the mode while the save runs.
SwitchSaveNext ==
  \/ Saving
  \/ SwitchMode
  \/ Hydrating

SwitchSaveSpec == SwitchSaveInit /\ [][SwitchSaveNext]_vars

\* The screen entered with an item JSON.parse rejects under one key or both.
CorruptInit ==
  /\ mounted = TRUE
  /\ mode \in Modes
  /\ loading = FALSE
  /\ saved = FALSE
  /\ hydrated = FALSE
  /\ form = Blank
  /\ conditions = {}
  /\ enabledTriggers = <<>>
  /\ drafts \in [Modes -> {None, Some(Corrupt)}] \ {[m \in Modes |-> None]}
  /\ passes = {NewPass(mode, 1)}
  /\ save = Idle
  /\ orphan = Idle
  /\ saveResult = "none"
  /\ db \in {EmptyDb, SeedDb}
  /\ used = NothingUsed

\* A form with on_period at Yes and a value for period_pain.
PeriodForm ==
  [SeedForm EXCEPT !.triggerValues["period_pain"] = Some([value |-> Some(3), valueText |-> None])]

PeriodInit == Hydrated(PeriodForm)

\* The trigger inputs are used and the form is saved.
PeriodNext ==
  \/ SetTriggerValue
  \/ Saving

PeriodSpec == PeriodInit /\ [][PeriodNext]_vars

\* A form filled in while "stress" was still enabled.
StressForm ==
  [SeedForm EXCEPT !.triggerValues["stress"] = Some([value |-> Some(3), valueText |-> None])]

\* The screen is entered with a draft written before "stress" was disabled
\* under either mode or both.
DisabledInit ==
  /\ mounted = TRUE
  /\ mode \in Modes
  /\ loading = FALSE
  /\ saved = FALSE
  /\ hydrated = FALSE
  /\ form = Blank
  /\ conditions = {}
  /\ enabledTriggers = <<>>
  /\ drafts \in {d \in [Modes -> {None, Some(MakeDraft("daily", StressForm)),
                                    Some(MakeDraft("moment", StressForm))}] :
                  /\ \E m \in Modes : d[m] # None
                  /\ \A m \in Modes : d[m] # None => d[m] = Some(MakeDraft(m, StressForm))}
  /\ passes = {NewPass(mode, 1)}
  /\ save = Idle
  /\ orphan = Idle
  /\ saveResult = "none"
  /\ db \in {EmptyDb, SeedDb}
  /\ used = NothingUsed

\* The screen loads and hydrates, and is saved.
DisabledNext ==
  \/ LoadConditionsDone
  \/ LoadEnabledTriggersDone
  \/ Hydrating
  \/ Saving

DisabledSpec == DisabledInit /\ [][DisabledNext]_vars

\* Entering and switching mode, nothing else.
CorruptNext ==
  \/ LoadConditionsDone
  \/ LoadEnabledTriggersDone
  \/ Hydrating
  \/ SwitchMode

CorruptSpec == CorruptInit /\ [][CorruptNext]_vars

\* Saving, leaving the screen from the Saved overlay or otherwise, and
\* entering it again.
ReturnNext ==
  \/ Saving
  \/ Orphaned
  \/ DismissSaved
  \/ NavigateAway
  \/ Mount
  \/ Hydrating

ReturnSpec == SaveInit /\ [][ReturnNext]_vars

\* Saving, leaving the screen while the save runs, and entering it again.
ReenterNext ==
  \/ Saving
  \/ Orphaned
  \/ Cancel
  \/ Mount
  \/ Hydrating

ReenterSpec == SaveInit /\ [][ReenterNext]_vars

\* The lists of enabled leaf triggers: any of the triggers, in any order.
TriggerLists ==
  {l \in UNION {[1..n -> Trigs] : n \in 0..Cardinality(Trigs)} :
     \A i, j \in 1..Len(l) : l[i] = l[j] => i = j}

\* What the form can hold for on_period: no entry, a null, No, Yes, or a
\* number a row of another input type left there.
OnPeriodValues ==
  {None, Some([value |-> None, valueText |-> None])}
    \cup {Some(x) : x \in TrigInputs("on_period")}
    \cup {Some([value |-> Some(2), valueText |-> None])}

\* The hydrated screen with each list of enabled triggers and each value of
\* on_period.
TriggerInit ==
  \E l \in TriggerLists, v \in OnPeriodValues :
    /\ mounted = TRUE
    /\ mode \in Modes
    /\ loading = FALSE
    /\ saved = FALSE
    /\ hydrated = TRUE
    /\ form = [Blank EXCEPT !.triggerValues["on_period"] = v]
    /\ conditions = UserConditions
    /\ enabledTriggers = l
    /\ passes = {}
    /\ save = Idle
    /\ orphan = Idle
    /\ saveResult = "none"
    /\ drafts = [m \in Modes |-> IF m = mode THEN Some(MakeDraft(m, form)) ELSE None]
    /\ db = EmptyDb
    /\ used = NothingUsed

\* The row of a new account: no streak and no log date.
NewUser == [current_streak |-> 0, longest_streak |-> 0, last_log_date |-> None]

\* The screen of a new account.
StreakInit ==
  /\ mounted = TRUE
  /\ mode \in Modes
  /\ loading = FALSE
  /\ saved = FALSE
  /\ hydrated = TRUE
  /\ form = Blank
  /\ conditions = UserConditions
  /\ enabledTriggers = UserTriggers
  /\ passes = {}
  /\ save = Idle
  /\ orphan = Idle
  /\ saveResult = "none"
  /\ drafts = [m \in Modes |-> None]
  /\ db = [EmptyDb EXCEPT !.users = NewUser]
  /\ used = NothingUsed

\* updateStreak(userId, logDate) as a whole, for a date not before the last
\* one (the clock does not go back) and the zone of the device it runs on.
UpdateStreak ==
  /\ \E d \in Days, z \in Zones :
       /\ db.users.last_log_date # None => d >= db.users.last_log_date[1]
       /\ db' = [db EXCEPT !.users = updateStreak(db.users, d, z)]
  /\ UNCHANGED <<mounted, mode, loading, saved, hydrated, form, conditions,
                 enabledTriggers, passes, save, orphan, saveResult, drafts, used>>

StreakNext ==
  \/ UpdateStreak

StreakSpec == StreakInit /\ [][StreakNext]_vars

\* The trigger inputs shown are used, and the list of triggers arrives.
TriggerNext ==
  \/ SetTriggerValue
  \/ LoadEnabledTriggersDone

TriggerSpec == TriggerInit /\ [][TriggerNext]_vars

\* ---------------------------------------------------------------- properties
\* A step of the hydrate run p of a context that has been abandoned.
StaleStep(p) == p.cancelled /\ p \notin passes' /\ mounted'

\* C1: when the reads of an abandoned hydrate run complete, the run writes no
\* field of the form and does not set the hydrated flag.
C1_StaleHydrationWritesNothing ==
  [][\A p \in passes : StaleStep(p) => (form' = form /\ hydrated' = hydrated)]_vars

\* C2: once a save has succeeded the draft under its key is absent, while the
\* Saved overlay is shown and still after the overlay is dismissed, as long
\* as nothing has been edited since Save was pressed.
C2_DraftStaysAbsentAfterSave ==
  [][((saved' \/ (saved /\ mounted')) /\ used'.edits = save'.before.edits)
       => drafts'[save'.mode] = None]_vars

\* The run of the current context (not cancelled) finishes in this step.
Completes(p) ==
  /\ ~p.cancelled
  /\ p \notin passes'
  /\ \A q \in passes' : q.id # p.id
  /\ mounted'
  /\ mode' = mode

\* Every field of f is the value the draft d holds for it (a daily draft holds
\* no activity text).
EqualsDraft(f, d) ==
  /\ f.overallSeverity = d.overallSeverity
  /\ f.selectedConditions = d.selectedConditions
  /\ f.conditionSeverities = d.conditionSeverities
  /\ f.notes = d.notes
  /\ f.triggerValues = d.triggerValues
  /\ f.whatDoing = IF d.whatDoing = None THEN "" ELSE d.whatDoing[1]

\* C3: with a parseable draft under the daily key and a persisted daily row, a
\* hydrate run that completes leaves every form field equal to the draft's.
C3_DraftWinsOverPersistedRow ==
  [][\A p \in passes :
       (Completes(p) /\ p.mode = "daily" /\ p.draft # None /\ db.daily_logs # {})
         => (hydrated' /\ EqualsDraft(form', p.draft[1]))]_vars

C3_Witness ==
  /\ hydrated
  /\ mode = "daily"
  /\ passes = {}
  /\ db = SeedDb
  /\ used.edits = 0
  /\ drafts["daily"] # None
  /\ EqualsDraft(form, MakeDraft("daily", SeedForm))

\* C4: the step that completes a hydrate run (hydrated becomes true) writes
\* nothing to the draft cache.
C4_HydrationWritesNoDraft ==
  [][(~hydrated /\ hydrated') => drafts' = drafts]_vars

\* C5: a save that fails leaves the draft cache as it was and performs no
\* further write: the failing step changes neither the drafts nor the tables,
\* and handleSave is at rest after it.
C5_FailedSaveKeepsDraft ==
  [][(save.pc # "idle" /\ saveResult' = "failed")
       => (drafts' = drafts /\ db' = db /\ save'.pc = "idle")]_vars

C5_Witness ==
  /\ saveResult = "failed"
  /\ save.pc = "idle"
  /\ drafts[save.mode] = Some(MakeDraft(save.mode, save.snap))
  /\ save.snap # Blank

\* The values the persisted daily row r and its child rows hold for f's fields.
FromRow(f, r) ==
  /\ f.overallSeverity \in {None, r.overall_severity}
  /\ f.notes \in {"", Coalesce(r.notes, "")}
  /\ \/ f.selectedConditions = {} /\ f.conditionSeverities = NoSeverities
     \/ /\ f.selectedConditions =
             {c.user_condition_id : c \in {x \in db.daily_log_conditions : x.log_id = r.id}}
        /\ \A c \in {x \in db.daily_log_conditions : x.log_id = r.id} :
             f.conditionSeverities[c.user_condition_id] = c.severity
  /\ \A t \in Trigs :
       \/ f.triggerValues[t] = None
       \/ \E x \in db.daily_log_triggers :
            /\ x.log_id = r.id /\ x.trigger_id = t
            /\ f.triggerValues[t] = Some([value |-> Some(x.value), valueText |-> x.value_text])
  /\ f.whatDoing = ""

\* C6: after a mode switch, with nothing entered since, the form of the mode
\* entered holds at the end of its hydrate run only values of that mode's own
\* draft, of the persisted daily row (daily mode), or the blank defaults.
C6_ModeIsolation ==
  [][\A p \in passes :
       (Completes(p) /\ hydrated' /\ used.switches > 0 /\ used.edits = used.atEntry)
         => IF p.draft # None THEN EqualsDraft(form', p.draft[1])
            ELSE IF p.mode = "moment" \/ db.daily_logs = {} THEN form' = Blank
            ELSE \E r \in db.daily_logs : FromRow(form', r)]_vars

\* The rows a save has written so far.
ParentWritten ==
  save.pc \in {"deleteConditions", "deleteTriggers", "insertConditions",
               "insertTriggers", "fetchStreak", "updateStreak", "cleared"}

WrittenRow ==
  CHOOSE r \in (IF save.mode = "daily" THEN db.daily_logs ELSE
                {[id |-> m.id, overall_severity |-> m.overall_severity, notes |-> m.notes] :
                   m \in db.moment_logs}) : r.id = save.id

\* The per-condition severities that are set, and their mean rounded half up.
SetSeverities(f) == {c \in f.selectedConditions : f.conditionSeverities[c] # None}

MeanOfSet(f) ==
  (2 * Sum([c \in Conds |-> IF f.conditionSeverities[c] = None THEN 0
                            ELSE f.conditionSeverities[c][1]], SetSeverities(f))
     + Cardinality(SetSeverities(f))) \div (2 * Cardinality(SetSeverities(f)))

\* C7: the overall severity a save writes is the explicit one when it is set;
\* otherwise, when some per-condition severity is set, the mean of the set
\* ones rounded half up (selected conditions without a severity do not count).
C7_SeverityIsMeanOfSetSeverities ==
  ParentWritten =>
    /\ save.snap.overallSeverity # None
         => WrittenRow.overall_severity = save.snap.overallSeverity
    /\ (save.snap.overallSeverity = None /\ SetSeverities(save.snap) # {})
         => WrittenRow.overall_severity = Some(MeanOfSet(save.snap))

\* C8: with no explicit overall severity and no per-condition severity set,
\* the overall severity a save writes is null.
C8_SeverityNullWithoutSeverities ==
  (ParentWritten /\ save.snap.overallSeverity = None /\ SetSeverities(save.snap) = {})
    => WrittenRow.overall_severity = None

\* The child rows of the daily check-in are those of the form f, no others.
ChildrenAre(f) ==
  /\ {r.user_condition_id : r \in db.daily_log_conditions} = f.selectedConditions
  /\ \A r \in db.daily_log_conditions :
       r.log_id = save.id /\ r.severity = f.conditionSeverities[r.user_condition_id]
  /\ {r.trigger_id : r \in db.daily_log_triggers} =
       {t \in Trigs : f.triggerValues[t] # None /\ f.triggerValues[t][1].value # None}
  /\ \A r \in db.daily_log_triggers :
       r.log_id = save.id /\ Some(r.value) = f.triggerValues[r.trigger_id][1].value

LastDailySaveSucceeded ==
  save.pc = "idle" /\ saveResult = "saved" /\ save.mode = "daily"

C10_OneDailyRow ==
  /\ Cardinality(db.daily_logs) <= 1
  /\ save.pc = "insertDaily" => db.daily_logs = {}
  /\ save.pc = "update" => \E r \in db.daily_logs : r.id = save.id

C10_Witness ==
  /\ used.saves = 2
  /\ used.succeeded = 2
  /\ save.mode = "daily"
  /\ save.pc = "idle"
  /\ save.before.conditions # {}
  /\ Cardinality(db.daily_logs) = 1

\* A step taken while a moment save runs.
DuringMomentSave == save.mode = "moment" /\ save.pc # "idle"

\* C11: a moment save adds exactly one row to moment_logs, at its insert, and
\* child rows of that row only; it changes and removes no row that was there,
\* and when it succeeds the new row's children are those of the form saved.
C11_MomentSaveOnlyAdds ==
  [][DuringMomentSave =>
       /\ db.moment_logs \subseteq db'.moment_logs
       /\ db.moment_log_conditions \subseteq db'.moment_log_conditions
       /\ db.moment_log_triggers \subseteq db'.moment_log_triggers
       /\ db'.daily_logs = db.daily_logs
       /\ db'.daily_log_conditions = db.daily_log_conditions
       /\ db'.daily_log_triggers = db.daily_log_triggers
       /\ Cardinality(db'.moment_logs) =
            Cardinality(db.moment_logs) +
              (IF save.pc = "insertMoment" /\ save'.pc \notin {"insertMoment", "idle"}
               THEN 1 ELSE 0)
       /\ \A r \in db'.moment_logs \ db.moment_logs : r.id = save'.id
       /\ \A r \in db'.moment_log_conditions \ db.moment_log_conditions :
            r.log_id = save.id
       /\ \A r \in db'.moment_log_triggers \ db.moment_log_triggers :
            r.log_id = save.id
       /\ (save'.pc = "idle" /\ saveResult' = "saved") =>
            /\ \E r \in db'.moment_logs : r.id = save.id
            /\ {r \in db'.moment_log_conditions : r.log_id = save.id} =
                 ConditionRows(save.id, save.snap)
            /\ {r \in db'.moment_log_triggers : r.log_id = save.id} =
                 TriggerRows(save.id, save.snap)]_vars

C11_Witness ==
  /\ save.pc = "idle"
  /\ save.mode = "moment"
  /\ saveResult = "saved"
  /\ Cardinality(db.moment_logs) = 2
  /\ db.moment_log_conditions # {}
  /\ db.moment_log_triggers # {}

\* The save has sent its trigger rows (or had none to send).
TriggersWritten == save.pc \in {"fetchStreak", "updateStreak", "cleared"}

\* The trigger rows of the check-in the save wrote.
WrittenTriggerRows ==
  {r \in (IF save.mode = "daily" THEN db.daily_log_triggers
          ELSE db.moment_log_triggers) : r.log_id = save.id}

HasValue(f, t) == f.triggerValues[t] # None /\ f.triggerValues[t][1].value # None

\* C12: the trigger rows a save writes are one row for each trigger of the
\* form whose value is not null, 0 included, holding that value, and no row
\* for a trigger whose value is null or that has no entry.
C12_TriggerRowsAreNonNullValues ==
  TriggersWritten =>
    /\ {r.trigger_id : r \in WrittenTriggerRows} = {t \in Trigs : HasValue(save.snap, t)}
    /\ Cardinality(WrittenTriggerRows) =
         Cardinality({t \in Trigs : HasValue(save.snap, t)})
    /\ \A r \in WrittenTriggerRows :
         /\ r.value \in Int
         /\ Some(r.value) = save.snap.triggerValues[r.trigger_id][1].value

C12_Witness ==
  /\ TriggersWritten
  /\ save.snap.triggerValues = ZeroAndNullTriggerValues
  /\ {r.trigger_id : r \in WrittenTriggerRows} = {"on_period", "sleep_duration"}

\* Whether period_pain is to be shown, and the positions of the enabled list
\* that are to be kept.
PeriodPainShown ==
  /\ \E i \in 1..Len(enabledTriggers) : enabledTriggers[i] = "on_period"
  /\ form.triggerValues["on_period"] # None
  /\ form.triggerValues["on_period"][1].value = Some(1)

KeptPositions ==
  {i \in 1..Len(enabledTriggers) :
     enabledTriggers[i] = "period_pain" => PeriodPainShown}

\* C13: the triggers shown are the enabled ones in their order, without
\* period_pain unless on_period is enabled and its value is exactly 1.
C13_PeriodPainOnlyWithOnPeriod ==
  LET shown == filteredTriggers(enabledTriggers, form.triggerValues) IN
    /\ Len(shown) = Cardinality(KeptPositions)
    /\ \A k \in 1..Len(shown) :
         shown[k] = enabledTriggers[CHOOSE i \in KeptPositions :
                                      Cardinality({j \in KeptPositions : j < i}) = k - 1]

C13_Witness ==
  /\ used.edits = 1
  /\ enabledTriggers = <<"sleep_duration", "period_pain", "on_period">>
  /\ form.triggerValues["on_period"] = Some([value |-> Some(0), valueText |-> Some("No")])
  /\ form.triggerValues["period_pain"] = None
  /\ filteredTriggers(enabledTriggers, form.triggerValues) =
       <<"sleep_duration", "on_period">>

\* The hydrate run of the current context has finished: no run is awaited
\* but runs of contexts that were abandoned.
HydrationDone == mounted /\ \A p \in passes : p.cancelled

\* C14: once the hydrate run of the context has finished, an edit leaves the
\* draft under the current key equal to the whole form as it is after the edit
\* (the autosave effect writes it in the render that follows the edit, and
\* nothing else would write it later).
C14_EditReachesDraft ==
  [][(HydrationDone /\ UI /\ used'.edits > used.edits)
       => drafts'[mode'] = Some(MakeDraft(mode', form'))]_vars

\* C15: whenever the hydrated flag is clear on the mounted screen it is set
\* again (or the screen is left), whether the reads of hydrate succeed or fail.
C15_HydratedEventuallySet ==
  (mounted /\ ~hydrated) ~> (hydrated \/ ~mounted)

\* C16: the draft that cancel leaves holds every field of the form as it is
\* at that time, and a hydrate run that finds a draft under its key leaves
\* every field of the form equal to the draft's: cancelling and entering the
\* same context again gives the form back.
C16_DraftRoundTrip ==
  [][/\ Cancel => (drafts'[mode] # None /\ EqualsDraft(form, drafts'[mode][1]))
     /\ \A p \in passes :
          (Completes(p) /\ p.draft # None)
            => (hydrated' /\ EqualsDraft(form', p.draft[1]))]_vars

\* The screen cancelled after an edit, entered again and hydrated.
C16_Witness ==
  /\ mounted
  /\ hydrated
  /\ passes = {}
  /\ mode = "daily"
  /\ used.cancels = 1
  /\ used.switches = 1
  /\ used.edits = 1
  /\ used.atEntry = 1
  /\ form = [Blank EXCEPT !.triggerValues["sleep_duration"] =
                Some([value |-> Some(0), valueText |-> Some("<=4 hours")])]

\* The draft under the key of the current mode is the form as it is.
DraftIsForm(d) ==
  /\ d[mode] # None
  /\ d[mode][1].mode = mode
  /\ EqualsDraft(form, d[mode][1])

\* C17: cancel leaves under the current key one draft, the form as it is,
\* whatever was stored before; a cancel that finds that draft already there
\* changes nothing; cancel writes under no other key, reports no failure and
\* changes no table and no save.
C17_CancelTwice ==
  [][Cancel =>
       /\ DraftIsForm(drafts')
       /\ DraftIsForm(drafts) => drafts' = drafts
       /\ \A m \in Modes \ {mode} : drafts'[m] = drafts[m]
       /\ db' = db
       /\ save' = save
       /\ saveResult' = saveResult]_vars

\* Two cancels of one instance with no edit at all, the form holding what
\* it was hydrated with.
C17_Witness ==
  /\ mounted
  /\ hydrated
  /\ used.cancels = 2
  /\ used.switches = 0
  /\ used.edits = 0
  /\ form # Blank
  /\ DraftIsForm(drafts)

\* The save is inside updateStreak.
InStreakUpdate == save.pc \in {"fetchStreak", "updateStreak"}

\* The tables of the check-ins.
CheckInTables(d) ==
  <<d.daily_logs, d.daily_log_conditions, d.daily_log_triggers,
    d.moment_logs, d.moment_log_conditions, d.moment_log_triggers>>

\* C18: updateStreak is reached only with the row of the check-in written;
\* whatever its requests answer, the step leaves the rows of the check-in as
\* they are, goes on to the rest of the save, and reports no failure.
C18_StreakFailureKeepsSave ==
  [][(InStreakUpdate /\ save' # save) =>
       /\ \E r \in (IF save.mode = "daily" THEN db.daily_logs ELSE db.moment_logs) :
            r.id = save.id
       /\ CheckInTables(db') = CheckInTables(db)
       /\ saveResult' # "failed"
       /\ save'.pc \in {"updateStreak", "cleared"}]_vars

\* C19: the step in which a save fails changes no field of the form, does
\* not raise the saved signal and leaves the screen hydrated and mounted as
\* it was.
C19_FailedSaveKeepsForm ==
  [][(save.pc # "idle" /\ saveResult' = "failed")
       => /\ form' = form
          /\ ~saved'
          /\ hydrated' = hydrated
          /\ mounted' = mounted
          /\ mode' = mode]_vars

C19_Witness ==
  /\ saveResult = "failed"
  /\ save.pc = "idle"
  /\ mounted
  /\ ~saved
  /\ ~loading
  /\ form = save.snap
  /\ form.notes = "n1"
  /\ form.selectedConditions = {"A"}

\* A step of a save while the screen shows the other mode.
SaveStepAfterSwitch == save.pc # "idle" /\ save' # save /\ save.mode # mode

\* Every row of the save's snapshot is in the tables of the save's mode.
SnapshotWritten ==
  IF save.mode = "daily"
  THEN db.daily_logs # {} /\ ChildrenAre(save.snap)
  ELSE /\ \E r \in db.moment_logs : r.id = save.id
       /\ ConditionRows(save.id, save.snap) \subseteq db.moment_log_conditions
       /\ TriggerRows(save.id, save.snap) \subseteq db.moment_log_triggers

\* C20: a mode switch leaves a running save as it is; the steps the save
\* takes after the switch keep its mode and its snapshot, write to the
\* tables of its own mode only, leave the draft of the mode now shown
\* untouched, remove the draft of the save's own key and no other, and
\* end in success only after that removal, with every row of the snapshot
\* written and no draft written or removed by the completion.
C20_SaveOutlivesModeSwitch ==
  [][/\ mode' # mode => save' = save
     /\ SaveStepAfterSwitch =>
          /\ save'.mode = save.mode
          /\ save'.snap = save.snap
          /\ drafts'[mode] = drafts[mode]
          /\ save.mode = "moment" =>
               <<db'.daily_logs, db'.daily_log_conditions, db'.daily_log_triggers>> =
               <<db.daily_logs, db.daily_log_conditions, db.daily_log_triggers>>
          /\ save.mode = "daily" =>
               <<db'.moment_logs, db'.moment_log_conditions, db'.moment_log_triggers>> =
               <<db.moment_logs, db.moment_log_conditions, db.moment_log_triggers>>
          /\ save'.pc = "cleared" => drafts' = [drafts EXCEPT ![save.mode] = None]
          /\ (save'.pc = "idle" /\ saveResult' = "saved") =>
               /\ save.pc = "cleared"
               /\ drafts' = drafts
               /\ SnapshotWritten']_vars

C20_Witness ==
  /\ saveResult = "saved"
  /\ save.pc = "idle"
  /\ save.snap # Blank
  /\ mode # save.mode
  /\ used.switches = 1
  /\ SnapshotWritten
  /\ drafts[save.mode] = None
  /\ drafts[mode] = Some(MakeDraft(mode, SeedForm))

\* A run of handleSave has been started and has not finished.
InFlight(r) == r.pc # "idle"

\* C21: at most one run of handleSave is in flight, so that the requests of
\* two runs are never outstanding together.
C21_OneSaveInFlight == ~(InFlight(save) /\ InFlight(orphan))

\* C22: where no cancel and no save is made every change of the draft cache
\* is a write of the autosave effect; each is made in a render whose hydrated
\* flag is set, with no hydrate run of the current key left to finish, and
\* writes under the current key only.
C22_AutosaveOnlyWhenHydrated ==
  [][drafts' # drafts =>
       /\ mounted'
       /\ hydrated'
       /\ \A p \in passes' : p.cancelled
       /\ drafts'[mode'] = Some(MakeDraft(mode', form'))
       /\ \A m \in Modes \ {mode'} : drafts'[m] = drafts[m]]_vars

\* An edit made while the hydrate run of the mode entered was awaited, then
\* written by the autosave effect once the run had finished.
C22_Witness ==
  /\ mounted
  /\ hydrated
  /\ passes = {}
  /\ used.switches = 1
  /\ used.edits = 1
  /\ used.atEntry = 0
  /\ form.notes = "n1"
  /\ drafts[mode] = Some(MakeDraft(mode, form))

\* The draft read of the run p of the current key is answered in this step,
\* and the item under its key is one JSON.parse rejects.
CorruptDraftRead(p) ==
  /\ p.pc = "loadDraft"
  /\ ~p.cancelled
  /\ drafts[p.mode] = Some(Corrupt)
  /\ mode' = mode
  /\ \A q \in passes' : q.id = p.id => q.pc \notin {"loadDraft", "rejected"}

\* C23: the read of an unparseable draft answers null; the run then goes to
\* the select on daily_logs (daily) with no field of the draft branch set, or
\* ends with the form as resetForm left it and the hydrated flag set
\* (moment); nothing is reported.
C23_UnparseableDraftIsAbsent ==
  [][\A p \in passes :
       /\ drafts[p.mode] = Some(Corrupt) /\ p.pc = "loadDraft" => p.draft = None
       /\ CorruptDraftRead(p) =>
            /\ saveResult' = "none"
            /\ IF p.mode = "daily"
               THEN /\ \E q \in passes' : q.id = p.id /\ q.pc = "selectDaily"
                    /\ form' = [form EXCEPT !.whatDoing = ""]
                    /\ ~hydrated'
               ELSE /\ \A q \in passes' : q.id # p.id
                    /\ form' = form
                    /\ hydrated']_vars

\* The daily form filled from the persisted row although an unparseable
\* item lies under the daily key.
C23_Witness ==
  /\ mode = "daily"
  /\ drafts["daily"] = Some(Corrupt)
  /\ \E p \in passes : p.pc = "selectTriggers" /\ ~p.cancelled /\ p.mode = "daily"
  /\ form.notes = "n2"
  /\ form.selectedConditions = {"B"}
  /\ saveResult = "none"

\* The form the rows written for the form f give back: the overall severity
\* written, the notes, the selected conditions with their severities and the
\* trigger values that were written.
PersistedForm(f) ==
  [overallSeverity |-> finalOverallSeverity(f),
   selectedConditions |-> f.selectedConditions,
   conditionSeverities |->
     [c \in Conds |-> IF c \in f.selectedConditions THEN f.conditionSeverities[c] ELSE None],
   whatDoing |-> "",
   notes |-> f.notes,
   triggerValues |->
     [t \in Trigs |->
        IF HasValue(f, t)
        THEN Some([value |-> f.triggerValues[t][1].value,
                   valueText |-> IF f.triggerValues[t][1].valueText = Some("")
                                 THEN None ELSE f.triggerValues[t][1].valueText])
        ELSE None]]

\* The one save made was a daily save of a form that was not blank, it
\* succeeded, and it had finished when the hydrate run p of the daily key
\* started; nothing was edited.
AfterDailySave(p) ==
  /\ p.mode = "daily"
  /\ save.mode = "daily"
  /\ save.pc = "idle"
  /\ orphan = Idle
  /\ saveResult = "saved"
  /\ used.saves = 1
  /\ used.doneAtEntry = 1
  /\ used.edits = 0
  /\ save.snap # Blank

\* C24: the hydrate run of the daily key that follows a successful daily save
\* does not end at a draft; it goes on to the persisted row, and when its
\* reads are answered the form holds what the save wrote (the read of the
\* trigger rows may fail, leaving the trigger values empty).
C24_HydratesFromRowAfterSave ==
  [][\A p \in passes :
       (Completes(p) /\ AfterDailySave(p)) =>
          /\ p.draft = None
          /\ p.pc # "loadDraft"
          /\ hydrated'
          /\ p.pc = "selectTriggers" =>
               form' \in {PersistedForm(save.snap),
                          [PersistedForm(save.snap) EXCEPT !.triggerValues = NoTriggerValues]}]_vars

\* The hydrate run of the current key has reset the form and awaits its
\* draft read, and a draft with entries lies under the key.
DraftNotYetLoaded ==
  /\ ~hydrated
  /\ form = Blank
  /\ \E p \in passes : ~p.cancelled /\ p.mode = mode /\ p.pc = "loadDraft"
  /\ drafts[mode] # None
  /\ drafts[mode] # Some(MakeDraft(mode, Blank))

\* C25: a cancel made while the draft of the current key is not yet loaded
\* leaves that draft as it is.
C25_CancelKeepsUnloadedDraft ==
  [][(Cancel /\ DraftNotYetLoaded) => drafts'[mode] = drafts[mode]]_vars

\* A daily save of a check-in that had child rows has ended, in success or
\* in failure.
DailySaveOfExistingEnded ==
  /\ save.pc = "idle"
  /\ save.mode = "daily"
  /\ saveResult \in {"saved", "failed"}
  /\ save.before.conditions \cup save.before.triggers # {}

\* C26: when a daily save of an existing check-in has ended, the child rows
\* of the check-in are the rows it had before the save, all of them, or the
\* rows of the form saved, all of them.
C26_ChildrenAllOrNothing ==
  DailySaveOfExistingEnded =>
    \/ /\ db.daily_log_conditions = save.before.conditions
       /\ db.daily_log_triggers = save.before.triggers
    \/ /\ db.daily_log_conditions = ConditionRows(save.id, save.snap)
       /\ db.daily_log_triggers = TriggerRows(save.id, save.snap)

\* The condition c is selected before the step and not after it.
Deselected(c) == c \in form.selectedConditions /\ c \notin form'.selectedConditions

\* No condition has a severity without being selected.
NoOrphanSeverity(f) ==
  \A c \in Conds : f.conditionSeverities[c] # None => c \in f.selectedConditions

\* C27: a step that deselects a condition removes that condition alone from
\* the selection and its severity alone from the severities, and changes no
\* other field; after every step of the condition list and its sliders no
\* condition has a severity without being selected.
C27_ToggleRemovesSeverity ==
  [][/\ \A c \in Conds :
          Deselected(c) =>
            /\ form'.selectedConditions = form.selectedConditions \ {c}
            /\ form'.conditionSeverities = [form.conditionSeverities EXCEPT ![c] = None]
            /\ form' = [form EXCEPT !.selectedConditions = form'.selectedConditions,
                                    !.conditionSeverities = form'.conditionSeverities]
     /\ NoOrphanSeverity(form')]_vars

\* Condition A deselected, B left selected with the severity it had.
C27_Witness ==
  /\ used.edits = 1
  /\ form.selectedConditions = {"B"}
  /\ form.conditionSeverities = [c \in Conds |-> IF c = "B" THEN Some(6) ELSE None]
  /\ drafts[mode] = Some(MakeDraft(mode, form))

\* The streak the rule gives for the row read and the date of the log.
StreakByRule(user, d) ==
  IF user.last_log_date = Some(d - 1) THEN user.current_streak + 1
  ELSE IF user.last_log_date = Some(d) THEN user.current_streak
  ELSE 1

\* C28: every run of updateStreak leaves current_streak as the rule gives it
\* for the row it read and the date it wrote (one more after a log the day
\* before, unchanged after a log the same day, 1 otherwise) and
\* longest_streak as the larger of the previous longest_streak and the new
\* current_streak.
C28_StreakRule ==
  [][db'.users # db.users =>
       LET d == db'.users.last_log_date[1]
           cur == StreakByRule(db.users, d)
       IN /\ db'.users.current_streak = cur
          /\ db'.users.longest_streak =
               (IF cur > db.users.longest_streak THEN cur ELSE db.users.longest_streak)
          /\ db'.users.longest_streak >= db.users.longest_streak
          /\ db'.users.longest_streak >= db'.users.current_streak]_vars

\* The hydration pass and the load of the enabled triggers have both ended.
HydratedAndTriggersLoaded == hydrated /\ passes = {} /\ enabledTriggers # <<>>

\* C29: once the hydration pass and the load of the enabled triggers have
\* both ended, every trigger with an entry in triggerValues is an enabled
\* leaf trigger, and no row of a trigger table is for another trigger.
C29_OnlyEnabledTriggerValues ==
  /\ HydratedAndTriggersLoaded =>
       \A t \in Trigs : form.triggerValues[t] # None => t \in Range(enabledTriggers)
  /\ enabledTriggers # <<>> =>
       \A r \in db.daily_log_triggers \cup db.moment_log_triggers :
         r.trigger_id \in Range(UserTriggers)

\* on_period is 1 and period_pain has a value before the step, and on_period
\* is 0 after it.
OnPeriodSetToNo ==
  /\ form.triggerValues["on_period"] # None
  /\ form.triggerValues["on_period"][1].value = Some(1)
  /\ HasValue(form, "period_pain")
  /\ form'.triggerValues["on_period"] # None
  /\ form'.triggerValues["on_period"][1].value = Some(0)

\* The snapshot being saved has on_period at 0 and a value for period_pain,
\* and the trigger rows of the save are written.
HiddenPainSaved ==
  /\ TriggersWritten
  /\ save.snap.triggerValues["on_period"] # None
  /\ save.snap.triggerValues["on_period"][1].value = Some(0)
  /\ HasValue(save.snap, "period_pain")

\* C30: a step that sets on_period from 1 to 0 while period_pain has a value
\* hides period_pain, leaves its value in triggerValues and writes a draft
\* that holds it; and a save of a form with on_period at 0 and a value for
\* period_pain writes a trigger row with that value for period_pain.
C30_HiddenPeriodPainIsKept ==
  [][/\ OnPeriodSetToNo =>
          /\ ~showPeriodPain(enabledTriggers', form'.triggerValues)
          /\ form'.triggerValues["period_pain"] = form.triggerValues["period_pain"]
          /\ drafts'[mode'] # None
          /\ drafts'[mode'][1].triggerValues["period_pain"] = form.triggerValues["period_pain"]
     /\ HiddenPainSaved' =>
          \E r \in WrittenTriggerRows' :
            /\ r.trigger_id = "period_pain"
            /\ Some(r.value) = save'.snap.triggerValues["period_pain"][1].value]_vars

\* on_period was set to No, and the save has written the row of period_pain.
C30_Witness ==
  /\ used.edits = 1
  /\ HiddenPainSaved
  /\ save.snap.triggerValues["period_pain"] = Some([value |-> Some(3), valueText |-> None])
  /\ \E r \in WrittenTriggerRows : r.trigger_id = "period_pain" /\ r.value = 3

====
